---------------------------- MODULE Spec2Model ----------------------------
(***************************************************************************)
(* Logistic map: the trajectory iterator iterate_logistic and the          *)
(* bifurcation sweep of plot_feigenbaum (src/src/logistic_map_student.py). *)
(*                                                                         *)
(* Numbers are numpy float64 values.  A finite double is modelled exactly  *)
(* as a record [s, m, e] of value (-1)^s * m * 2^e, where m is a natural   *)
(* number of exactly Precision bits (or zero) held as a little-endian      *)
(* sequence of limbs in base Base, because TLC's integers are 32 bits      *)
(* wide.  Every arithmetic operation rounds its exact result to nearest,   *)
(* ties to even, as IEEE 754 binary64 does.  The exponent is not bounded:  *)
(* overflow to inf and subnormal results lie outside the inputs explored.  *)
(* -0.0 is identified with 0.0 (numpy compares them equal).                *)
(***************************************************************************)
EXTENDS Integers, Sequences, FiniteSets, TLC

(***************************************************************************)
(* Natural numbers of arbitrary size                                       *)
(***************************************************************************)
Base == 16384

LimbBits == 14

Precision == 53

RECURSIVE BNorm(_)
BNorm(a) ==
    IF a = <<>> THEN <<>>
    ELSE IF a[Len(a)] = 0 THEN BNorm(SubSeq(a, 1, Len(a) - 1))
    ELSE a

RECURSIVE BFromInt(_)
BFromInt(n) ==
    IF n = 0 THEN <<>> ELSE <<n % Base>> \o BFromInt(n \div Base)

BRest(a) == IF a = <<>> THEN <<>> ELSE Tail(a)

BLow(a) == IF a = <<>> THEN 0 ELSE Head(a)

RECURSIVE BAddC(_, _, _)
BAddC(a, b, c) ==
    IF a = <<>> /\ b = <<>> THEN (IF c = 0 THEN <<>> ELSE <<c>>)
    ELSE LET t == BLow(a) + BLow(b) + c
         IN  <<t % Base>> \o BAddC(BRest(a), BRest(b), t \div Base)

BAdd(a, b) == BAddC(a, b, 0)

RECURSIVE BSubC(_, _, _)
BSubC(a, b, c) ==
    IF a = <<>> THEN <<>>
    ELSE LET t == BLow(a) - BLow(b) - c
         IN  IF t < 0 THEN <<t + Base>> \o BSubC(Tail(a), BRest(b), 1)
             ELSE <<t>> \o BSubC(Tail(a), BRest(b), 0)

\* a - b for a >= b
BSub(a, b) == BNorm(BSubC(a, b, 0))

RECURSIVE BCmpTop(_, _, _)
BCmpTop(a, b, i) ==
    IF i = 0 THEN 0
    ELSE IF a[i] < b[i] THEN -1
    ELSE IF a[i] > b[i] THEN 1
    ELSE BCmpTop(a, b, i - 1)

\* -1, 0 or 1 as a < b, a = b or a > b
BCmp(a, b) ==
    IF Len(a) < Len(b) THEN -1
    ELSE IF Len(a) > Len(b) THEN 1
    ELSE BCmpTop(a, b, Len(a))

RECURSIVE BMulSmallC(_, _, _)
BMulSmallC(a, d, c) ==
    IF a = <<>> THEN (IF c = 0 THEN <<>> ELSE <<c>>)
    ELSE LET t == Head(a) * d + c
         IN  <<t % Base>> \o BMulSmallC(Tail(a), d, t \div Base)

\* a * d for 0 <= d < Base
BMulSmall(a, d) == BNorm(BMulSmallC(a, d, 0))

RECURSIVE BMul(_, _)
BMul(a, b) ==
    IF a = <<>> \/ b = <<>> THEN <<>>
    ELSE LET rest == BMul(a, Tail(b))
         IN  BAdd(BMulSmall(a, Head(b)),
                  IF rest = <<>> THEN <<>> ELSE <<0>> \o rest)

Zeros(n) == [j \in 1..n |-> 0]

\* a * 2^k
BShl(a, k) ==
    IF a = <<>> THEN <<>>
    ELSE Zeros(k \div LimbBits) \o BMulSmall(a, 2 ^ (k % LimbBits))

RECURSIVE BDivSmallTop(_, _, _)
BDivSmallTop(a, d, c) ==
    IF a = <<>> THEN <<>>
    ELSE LET t == c * Base + a[Len(a)]
         IN  BDivSmallTop(SubSeq(a, 1, Len(a) - 1), d, t % d) \o <<t \div d>>

\* floor(a / d) for 0 < d <= Base
BDivSmall(a, d) == BNorm(BDivSmallTop(a, d, 0))

\* floor(a / 2^k)
BShr(a, k) ==
    IF Len(a) <= k \div LimbBits THEN <<>>
    ELSE BDivSmall(SubSeq(a, (k \div LimbBits) + 1, Len(a)), 2 ^ (k % LimbBits))

RECURSIVE IntBitLen(_)
IntBitLen(n) == IF n = 0 THEN 0 ELSE 1 + IntBitLen(n \div 2)

BBitLen(a) ==
    IF a = <<>> THEN 0 ELSE LimbBits * (Len(a) - 1) + IntBitLen(a[Len(a)])

BOdd(a) == a # <<>> /\ Head(a) % 2 = 1

(***************************************************************************)
(* float64 arithmetic (the dtype of np.zeros and of np.linspace)           *)
(***************************************************************************)
FZero == [s |-> 0, m |-> <<>>, e |-> 0]

\* The double nearest to (-1)^s * (N + t) * 2^E, ties to even, where
\* 0 < t < 1 when sticky and t = 0 otherwise; sticky needs more than
\* Precision + 1 bits in N.
FRound(s, N, E, sticky) ==
    LET L == BBitLen(N) IN
    IF N = <<>> THEN FZero
    ELSE IF L <= Precision
    THEN [s |-> s, m |-> BShl(N, Precision - L), e |-> E - (Precision - L)]
    ELSE LET sh   == L - Precision
             q    == BShr(N, sh)
             rem  == BSub(N, BShl(q, sh))
             half == BShl(<<1>>, sh - 1)
             c    == BCmp(rem, half)
             up   == c > 0 \/ (c = 0 /\ (sticky \/ BOdd(q)))
             q2   == IF up THEN BAdd(q, <<1>>) ELSE q
         IN  IF BBitLen(q2) > Precision
             THEN [s |-> s, m |-> BShr(q2, 1), e |-> E + sh + 1]
             ELSE [s |-> s, m |-> q2, e |-> E + sh]

\* float(n) for a Python int n
FromInt(n) ==
    IF n < 0 THEN FRound(1, BFromInt(-n), 0, FALSE)
    ELSE FRound(0, BFromInt(n), 0, FALSE)

FNeg(a) == IF a.m = <<>> THEN FZero ELSE [a EXCEPT !.s = 1 - a.s]

\* The exact sum of two doubles, as an unrounded (-1)^s * m * 2^e
DAdd(a, b) ==
    IF a.m = <<>> THEN b
    ELSE IF b.m = <<>> THEN a
    ELSE LET E  == IF a.e < b.e THEN a.e ELSE b.e
             Na == BShl(a.m, a.e - E)
             Nb == BShl(b.m, b.e - E)
             c  == BCmp(Na, Nb)
         IN  IF a.s = b.s THEN [s |-> a.s, m |-> BAdd(Na, Nb), e |-> E]
             ELSE IF c = 0 THEN FZero
             ELSE IF c > 0 THEN [s |-> a.s, m |-> BSub(Na, Nb), e |-> E]
             ELSE [s |-> b.s, m |-> BSub(Nb, Na), e |-> E]

FAdd(a, b) == LET d == DAdd(a, b) IN FRound(d.s, d.m, d.e, FALSE)

FSub(a, b) == FAdd(a, FNeg(b))

FMul(a, b) ==
    IF a.m = <<>> \/ b.m = <<>> THEN FZero
    ELSE FRound((a.s + b.s) % 2, BMul(a.m, b.m), a.e + b.e, FALSE)

\* Restoring division: n more quotient bits of rem / d, for rem < d.
RECURSIVE DivBits(_, _, _, _)
DivBits(rem, d, n, q) ==
    IF n = 0 THEN [q |-> q, rem |-> rem]
    ELSE LET r2  == BShl(rem, 1)
             ge  == BCmp(r2, d) >= 0
             r3  == IF ge THEN BSub(r2, d) ELSE r2
             q2  == IF ge THEN BAdd(BShl(q, 1), <<1>>) ELSE BShl(q, 1)
         IN  \* the test only makes TLC evaluate r3 and q2 before the call
             IF Len(r3) >= 0 /\ Len(q2) >= 0
             THEN DivBits(r3, d, n - 1, q2)
             ELSE [q |-> q2, rem |-> r3]

GuardBits == 3

\* a / b for b # 0
FDiv(a, b) ==
    IF a.m = <<>> THEN FZero
    ELSE LET ge == BCmp(a.m, b.m) >= 0
             r0 == IF ge THEN BSub(a.m, b.m) ELSE a.m
             q0 == IF ge THEN <<1>> ELSE <<>>
             nb == Precision + GuardBits
             qr == DivBits(r0, b.m, nb, q0)
         IN  FRound((a.s + b.s) % 2, qr.q, a.e - b.e - nb, qr.rem # <<>>)

\* a <= b and a < b
FLe(a, b) == LET d == FSub(a, b) IN d.m = <<>> \/ d.s = 1

FLt(a, b) == LET d == FSub(a, b) IN d.m # <<>> /\ d.s = 1

\* A decimal literal n/d of the source text, as Python reads it: the
\* double nearest to the quotient of the two integers.
Dec(n, d) == FDiv(FromInt(n), FromInt(d))

One == FromInt(1)

Half == Dec(5, 10)

(***************************************************************************)
(* Python and numpy primitives the two functions use                       *)
(***************************************************************************)
\* Mutant of NpZeros: one element short
NpZerosShort(n) == [j \in 1..(n - 1) |-> FZero]

\* np.zeros(n) for n >= 0
NpZeros(n) == [j \in 1..n |-> FZero]

\* Mutant of PyRepeat: one repetition too many
PyRepeatOneMore(v, c) == [j \in 1..(c + 1) |-> v]

\* [v] * c : the empty list for c <= 0
PyRepeat(v, c) == [j \in 1..c |-> v]

\* Mutant of PySliceFrom: keeps the head a[:len(a)-d] instead of the tail
PySliceHead(a, d) ==
    LET n     == Len(a)
        d0    == IF d < 0 THEN (IF n + d < 0 THEN 0 ELSE n + d) ELSE d
        start == IF d0 > n THEN n ELSE d0
    IN  SubSeq(a, 1, n - start)

\* a[d:] for a sequence a: a negative d counts from the end, and the start
\* is clipped to 0..len(a)
PySliceFrom(a, d) ==
    LET n     == Len(a)
        d0    == IF d < 0 THEN (IF n + d < 0 THEN 0 ELSE n + d) ELSE d
        start == IF d0 > n THEN n ELSE d0
    IN  SubSeq(a, start + 1, n)

\* Mutant of LinspaceItem: steps downwards from start
LinspaceItemDown(start, stop, num, k) ==
    LET delta == FSub(stop, start)
        div   == num - 1
        step  == FDiv(delta, FromInt(div))
        y     == IF div > 0 THEN FMul(FromInt(k), step)
                 ELSE FMul(FromInt(k), delta)
    IN  FSub(start, y)

\* element k (from 0) of np.linspace(start, stop, num) before the endpoint
\* is stored: arange(0, num) * step + start with step = (stop - start) / div,
\* or arange / div * delta when the step is zero, or arange * delta when
\* div = 0
LinspaceItem(start, stop, num, k) ==
    LET delta == FSub(stop, start)
        div   == num - 1
        step  == FDiv(delta, FromInt(div))
        y     == IF div > 0
                 THEN IF step = FZero
                      THEN FMul(FDiv(FromInt(k), FromInt(div)), delta)
                      ELSE FMul(FromInt(k), step)
                 ELSE FMul(FromInt(k), delta)
    IN  FAdd(y, start)

\* Mutant of NpLinspace: endpoint=False, the step is (stop - start) / num
\* and stop is not stored
NpLinspaceOpen(start, stop, num) ==
    [k \in 1..num |->
        FAdd(FMul(FromInt(k - 1), FDiv(FSub(stop, start), FromInt(num))), start)]

\* np.linspace(start, stop, num) for num >= 0 (endpoint=True): the last
\* element is overwritten with stop when num > 1
NpLinspace(start, stop, num) ==
    [k \in 1..num |-> IF num > 1 /\ k = num THEN stop
                      ELSE LinspaceItem(start, stop, num, k - 1)]

(***************************************************************************)
(* iterate_logistic(r, x0, n_iter)                                         *)
(***************************************************************************)
\* Mutant of IterateBody: the new value is clamped into [0, 1]
IterateBodyClamped(r, x, i) ==
    LET v == FMul(FMul(r, x[i]), FSub(One, x[i]))
    IN  [x EXCEPT ![i + 1] = IF FLt(v, FZero) THEN FZero
                              ELSE IF FLt(One, v) THEN One ELSE v]

\* Mutant of IterateBody: the factor (1 - x[i-1]) is missing
IterateBodyLinear(r, x, i) ==
    [x EXCEPT ![i + 1] = FMul(r, x[i])]

\* x[i] = r * x[i-1] * (1 - x[i-1]) ; Python index i is position i + 1
IterateBody(r, x, i) ==
    [x EXCEPT ![i + 1] = FMul(FMul(r, x[i]), FSub(One, x[i]))]

\* for i in range(1, n_iter)
RECURSIVE IterateLoop(_, _, _, _)
IterateLoop(r, x, i, n_iter) ==
    IF i >= n_iter THEN x
    ELSE IterateLoop(r, IterateBody(r, x, i), i + 1, n_iter)

\* The outcome of a call: the array returned, or the exception raised by
\* np.zeros (a negative size) or by the store x[0] = x0 (an empty array).
iterate_logistic(r, x0, n_iter) ==
    IF n_iter < 0 THEN [kind |-> "ValueError", x |-> <<>>]
    ELSE IF n_iter = 0 THEN [kind |-> "IndexError", x |-> <<>>]
    ELSE [kind |-> "ok",
          x    |-> IterateLoop(r, [NpZeros(n_iter) EXCEPT ![1] = x0], 1, n_iter)]

(***************************************************************************)
(* State                                                                   *)
(***************************************************************************)
VARIABLES
    pc,         \* plot_feigenbaum: the statement about to run
    r_min, r_max, n_r, n_iter, n_discard,   \* its configuration (lines 59-63)
    r_values,   \* np.linspace(r_min, r_max, n_r)
    x,          \* the trajectory buffer, allocated once
    r_plot, x_plot,                         \* the two output lists
    ridx,       \* how many parameter values the for loop has taken
    r,          \* the loop variable of "for r in r_values"
    i,          \* the loop variable of "for i in range(1, n_iter)"
    exc,        \* the exception that ended plot_feigenbaum, or "none"
    ipc,        \* iterate_logistic: "call", "returned" or "raised"
    a_r, a_x0, a_n,                         \* its arguments
    ret         \* its outcome

sweepVars == <<pc, r_min, r_max, n_r, n_iter, n_discard, r_values, x,
               r_plot, x_plot, ridx, r, i, exc>>

iterVars == <<ipc, a_r, a_x0, a_n, ret>>

vars == <<sweepVars, iterVars>>

(***************************************************************************)
(* Bounds and the inputs explored                                          *)
(***************************************************************************)
MaxNr == 3

MaxIter == 3

MaxDiscard == 3

MaxIterCall == 5

\* <<r_min, r_max>>: the source's 2.6 .. 4.0, a range whose samples are
\* exact, a single point, and a descending range (outside the contract)
RangePairs ==
    { <<Dec(26, 10), FromInt(4)>>, <<One, FromInt(3)>>,
      <<FromInt(3), FromInt(3)>>, <<FromInt(4), Dec(26, 10)>> }

\* growth rates passed to iterate_logistic: those of plot_time_series
\* (2, 3.2), further ones inside [0, 4], and two outside it
RArgs == { FromInt(2), Dec(32, 10), Dec(15, 10), FromInt(3), FromInt(4),
           FromInt(5), FromInt(-1) }

\* 1 - 1/r as the caller computes it
FixedPoint(rr) == FSub(One, FDiv(One, rr))

\* initial conditions: 0.5 of the callers, 0.1, the out-of-range 2, and the
\* nontrivial fixed point of the growth rate when there is one
X0Args(rr) ==
    { Half, Dec(1, 10), FromInt(2) } \cup
    (IF FLt(One, rr) THEN { FixedPoint(rr) } ELSE {})

(***************************************************************************)
(* plot_feigenbaum, statement by statement.  The source fixes its          *)
(* configuration in lines 59-63 (2.6, 4.0, 1401, 250, 100); the statements *)
(* below are run for every small configuration, also for those outside     *)
(* the contract of the sweep, where numpy and Python decide what happens.  *)
(***************************************************************************)
SweepInit ==
    /\ pc = "linspace"
    /\ \E p \in RangePairs : r_min = p[1] /\ r_max = p[2]
    /\ n_r \in -1..MaxNr
    /\ n_iter \in -1..MaxIter
    /\ n_discard \in -1..MaxDiscard
    /\ r_values = <<>>
    /\ x = <<>>
    /\ r_plot = <<>>
    /\ x_plot = <<>>
    /\ ridx = 0
    /\ r = FZero
    /\ i = 0
    /\ exc = "none"

Raise(e) ==
    /\ pc' = "raised"
    /\ exc' = e

\* line 66: r_values = np.linspace(r_min, r_max, n_r)
Linspace ==
    /\ pc = "linspace"
    /\ IF n_r < 0
       THEN Raise("ValueError") /\ UNCHANGED r_values
       ELSE /\ r_values' = NpLinspace(r_min, r_max, n_r)
            /\ pc' = "zeros"
            /\ UNCHANGED exc
    /\ UNCHANGED iterVars
    /\ UNCHANGED <<r_min, r_max, n_r, n_iter, n_discard, x, r_plot, x_plot,
                   ridx, r, i>>

\* lines 67-69: x = np.zeros(n_iter); r_plot = []; x_plot = []
Allocate ==
    /\ pc = "zeros"
    /\ IF n_iter < 0
       THEN Raise("ValueError") /\ UNCHANGED x
       ELSE /\ x' = NpZeros(n_iter)
            /\ pc' = "for_r"
            /\ UNCHANGED exc
    /\ r_plot' = <<>>
    /\ x_plot' = <<>>
    /\ UNCHANGED iterVars
    /\ UNCHANGED <<r_min, r_max, n_r, n_iter, n_discard, r_values, ridx, r, i>>

\* line 72: for r in r_values
ForR ==
    /\ pc = "for_r"
    /\ IF ridx < Len(r_values)
       THEN /\ r' = r_values[ridx + 1]
            /\ ridx' = ridx + 1
            /\ pc' = "set_x0"
       ELSE /\ pc' = "plot"
            /\ UNCHANGED <<r, ridx>>
    /\ UNCHANGED iterVars
    /\ UNCHANGED <<r_min, r_max, n_r, n_iter, n_discard, r_values, x,
                   r_plot, x_plot, i, exc>>

\* line 74: x[0] = 0.5
SetX0 ==
    /\ pc = "set_x0"
    /\ IF Len(x) = 0
       THEN Raise("IndexError") /\ UNCHANGED <<x, i>>
       ELSE /\ x' = [x EXCEPT ![1] = Half]
            /\ i' = 1
            /\ pc' = "for_i"
            /\ UNCHANGED exc
    /\ UNCHANGED iterVars
    /\ UNCHANGED <<r_min, r_max, n_r, n_iter, n_discard, r_values,
                   r_plot, x_plot, ridx, r>>

\* Mutant of SweepBody: reads x[i], the value the previous parameter left
\* there, instead of x[i-1]
SweepBodyStale(rr, xx, ii) ==
    [xx EXCEPT ![ii + 1] = FMul(FMul(rr, xx[ii + 1]), FSub(One, xx[ii + 1]))]

\* line 76: x[i] = r * x[i-1] * (1 - x[i-1]) ; Python index i is position i + 1
SweepBody(rr, xx, ii) ==
    [xx EXCEPT ![ii + 1] = FMul(FMul(rr, xx[ii]), FSub(One, xx[ii]))]

\* lines 75-76: for i in range(1, n_iter), one pass of the body
ForI ==
    /\ pc = "for_i"
    /\ IF i < n_iter
       THEN /\ x' = SweepBody(r, x, i)
            /\ i' = i + 1
            /\ pc' = "for_i"
       ELSE /\ pc' = "extend_r"
            /\ UNCHANGED <<x, i>>
    /\ UNCHANGED iterVars
    /\ UNCHANGED <<r_min, r_max, n_r, n_iter, n_discard, r_values,
                   r_plot, x_plot, ridx, r, exc>>

\* line 79: r_plot.extend([r] * (n_iter - n_discard))
ExtendR ==
    /\ pc = "extend_r"
    /\ r_plot' = r_plot \o PyRepeat(r, n_iter - n_discard)
    /\ pc' = "extend_x"
    /\ UNCHANGED iterVars
    /\ UNCHANGED <<r_min, r_max, n_r, n_iter, n_discard, r_values, x,
                   x_plot, ridx, r, i, exc>>

\* Mutant of ExtendX: assigns the tail instead of appending it
ExtendXAssign ==
    /\ pc = "extend_x"
    /\ x_plot' = PySliceFrom(x, n_discard)
    /\ pc' = "for_r"
    /\ UNCHANGED iterVars
    /\ UNCHANGED <<r_min, r_max, n_r, n_iter, n_discard, r_values, x,
                   r_plot, ridx, r, i, exc>>

\* line 80: x_plot.extend(x[n_discard:]) ; extend copies the elements of
\* the view, so later stores into x do not reach x_plot
ExtendX ==
    /\ pc = "extend_x"
    /\ x_plot' = x_plot \o PySliceFrom(x, n_discard)
    /\ pc' = "for_r"
    /\ UNCHANGED iterVars
    /\ UNCHANGED <<r_min, r_max, n_r, n_iter, n_discard, r_values, x,
                   r_plot, ridx, r, i, exc>>

\* lines 83-90: the figure; ax.plot(r_plot, x_plot) raises ValueError when
\* the two lists differ in length, otherwise the function returns
Plot ==
    /\ pc = "plot"
    /\ IF Len(r_plot) # Len(x_plot)
       THEN Raise("ValueError")
       ELSE pc' = "done" /\ UNCHANGED exc
    /\ UNCHANGED iterVars
    /\ UNCHANGED <<r_min, r_max, n_r, n_iter, n_discard, r_values, x,
                   r_plot, x_plot, ridx, r, i>>

(***************************************************************************)
(* A call of iterate_logistic                                              *)
(***************************************************************************)
IterIdle ==
    /\ ipc = "idle"
    /\ a_r = FZero
    /\ a_x0 = FZero
    /\ a_n = 0
    /\ ret = [kind |-> "none", x |-> <<>>]

SweepIdle ==
    /\ pc = "idle"
    /\ r_min = FZero
    /\ r_max = FZero
    /\ n_r = 0
    /\ n_iter = 0
    /\ n_discard = 0
    /\ r_values = <<>>
    /\ x = <<>>
    /\ r_plot = <<>>
    /\ x_plot = <<>>
    /\ ridx = 0
    /\ r = FZero
    /\ i = 0
    /\ exc = "none"

IterInit ==
    /\ ipc = "call"
    /\ a_r \in RArgs
    /\ a_x0 \in X0Args(a_r)
    /\ a_n \in -1..MaxIterCall
    /\ ret = [kind |-> "none", x |-> <<>>]

\* lines 18-22: the call runs to its return or to the exception
CallIterate ==
    /\ ipc = "call"
    /\ ret' = iterate_logistic(a_r, a_x0, a_n)
    /\ ipc' = IF ret'.kind = "ok" THEN "returned" ELSE "raised"
    /\ UNCHANGED <<a_r, a_x0, a_n>>
    /\ UNCHANGED sweepVars

Init == SweepInit /\ IterIdle

Next ==
    \/ Linspace
    \/ Allocate
    \/ ForR
    \/ SetX0
    \/ ForI
    \/ ExtendR
    \/ ExtendX
    \/ Plot

Spec == Init /\ [][Next]_vars

InitIterate == IterInit /\ SweepIdle

NextIterate == CallIterate

SpecIterate == InitIterate /\ [][NextIterate]_vars

(***************************************************************************)
(* Exact (unrounded) arithmetic on the values of doubles, used to state    *)
(* properties about real numbers                                           *)
(***************************************************************************)
DMulInt(a, k) ==
    IF k = 0 \/ a.m = <<>> THEN FZero ELSE [a EXCEPT !.m = BMulSmall(a.m, k)]

DAbs(a) == [a EXCEPT !.s = 0]

DSub(a, b) == DAdd(a, FNeg(b))

DEq(a, b) == DSub(a, b).m = <<>>

DLe(a, b) == LET d == DSub(a, b) IN d.m = <<>> \/ d.s = 1

DMax(a, b) == IF DLe(a, b) THEN b ELSE a

\* a * 2^k
DScale(a, k) == IF a.m = <<>> THEN FZero ELSE [a EXCEPT !.e = a.e + k]

(***************************************************************************)
(* Configurations                                                          *)
(***************************************************************************)
\* The contract of the sweep: num_r >= 1, 0 <= n_discard < n_iter,
\* r_max >= r_min
ValidConfig ==
    /\ n_r >= 1
    /\ 0 <= n_discard
    /\ n_discard < n_iter
    /\ FLe(r_min, r_max)

InvalidConfig == n_r < 1 \/ n_discard >= n_iter \/ n_iter < 1

\* the number of samples kept per parameter value
Kept == n_iter - n_discard

LoopFinished == pc \in {"plot", "done"}

IsPrefix(a, b) == Len(a) <= Len(b) /\ SubSeq(b, 1, Len(a)) = a

(***************************************************************************)
(* C1: for every valid configuration the sweep runs to its return without  *)
(* an exception, and once its loop has finished the two output lists have  *)
(* the same length, num_r * (n_iter - n_discard).                          *)
(***************************************************************************)
C1_ResultLength ==
    ValidConfig =>
        /\ pc # "raised"
        /\ LoopFinished =>
              /\ Len(r_plot) = Len(x_plot)
              /\ Len(r_plot) = n_r * (n_iter - n_discard)

\* three parameter values, two kept samples each
C1_Witness ==
    /\ pc = "done"
    /\ ValidConfig
    /\ n_r = 3 /\ n_iter = 3 /\ n_discard = 1
    /\ Len(r_plot) = 6 /\ Len(x_plot) = 6

C5_SamplePlacement ==
    (ValidConfig /\ LoopFinished) =>
        /\ Len(r_plot) = n_r * Kept
        /\ Len(x_plot) = n_r * Kept
        /\ \A k \in 0..(n_r - 1) : \A j \in 0..(Kept - 1) :
              /\ r_plot[k * Kept + j + 1] = r_values[k + 1]
              /\ x_plot[k * Kept + j + 1] =
                    iterate_logistic(r_values[k + 1], Half, n_iter).x[n_discard + j + 1]

\* a transient of one sample dropped from trajectories that are not constant
C5_Witness ==
    /\ pc = "done"
    /\ ValidConfig
    /\ n_r >= 2 /\ n_discard = 1 /\ n_iter = 3
    /\ x_plot[1] # Half
    /\ x_plot[1] # x_plot[2]
    /\ x_plot[1] # x_plot[3]

(***************************************************************************)
(* C6: whenever r_max >= r_min, r_plot is non-decreasing in every state of *)
(* the sweep; in a valid sweep it is made of groups of Kept equal entries, *)
(* the g-th group holding the g-th swept parameter value, and the swept    *)
(* values ascend.                                                          *)
(***************************************************************************)
C6_ParametersAscending ==
    /\ FLe(r_min, r_max) =>
          /\ \A p \in 1..(Len(r_plot) - 1) : FLe(r_plot[p], r_plot[p + 1])
          /\ \A k \in 1..(Len(r_values) - 1) : FLe(r_values[k], r_values[k + 1])
    /\ ValidConfig =>
          \A p \in 1..Len(r_plot) : r_plot[p] = r_values[((p - 1) \div Kept) + 1]

\* mid-sweep, two groups of two entries with different parameter values
C6_Witness ==
    /\ pc = "set_x0"
    /\ ValidConfig
    /\ Kept = 2
    /\ Len(r_plot) = 4
    /\ FLt(r_plot[2], r_plot[3])

(***************************************************************************)
(* C7 as stated: a valid sweep visits num_r values and, as real numbers,   *)
(* the k-th is exactly r_min + k * (r_max - r_min) / (num_r - 1) for       *)
(* num_r > 1, and r_min for num_r = 1.                                     *)
(***************************************************************************)
LinspaceDone == pc \notin {"idle", "linspace"} /\ n_r >= 0

\* (num_r - 1) * (r_min + k * (r_max - r_min) / (num_r - 1)), exactly
ScaledIdeal(k) ==
    DAdd(DMulInt(r_min, n_r - 1), DMulInt(DSub(r_max, r_min), k))

C7_ExactSpacing ==
    (LinspaceDone /\ ValidConfig) =>
        /\ Len(r_values) = n_r
        /\ n_r = 1 => r_values[1] = r_min
        /\ n_r > 1 => \A k \in 0..(n_r - 1) :
              DEq(DMulInt(r_values[k + 1], n_r - 1), ScaledIdeal(k))

(***************************************************************************)
(* C7 amended: the sweep visits exactly num_r values, one per pass of the  *)
(* outer loop; the first is exactly r_min and, for num_r > 1, the last     *)
(* exactly r_max; every value lies within 2^-50 * max(|r_min|, |r_max|)    *)
(* of r_min + k * (r_max - r_min) / (num_r - 1), being the float64 result  *)
(* of k * ((r_max - r_min) / (num_r - 1)) + r_min.                         *)
(***************************************************************************)
C7_Spacing ==
    /\ LinspaceDone =>
          /\ Len(r_values) = n_r
          /\ n_r >= 1 => r_values[1] = r_min
          /\ n_r > 1 => r_values[n_r] = r_max
          /\ n_r > 1 => \A k \in 0..(n_r - 1) :
                DLe(DAbs(DSub(DMulInt(r_values[k + 1], n_r - 1), ScaledIdeal(k))),
                    DMulInt(DScale(DMax(DAbs(r_min), DAbs(r_max)), -50),
                            n_r - 1))
          /\ n_r > 2 => \A k \in 1..(n_r - 2) :
                r_values[k + 1] =
                    FAdd(FMul(FromInt(k),
                              FDiv(FSub(r_max, r_min), FromInt(n_r - 1))),
                         r_min)
    /\ pc \in {"set_x0", "for_i", "extend_r", "extend_x"} =>
          /\ ridx \in 1..n_r
          /\ r = r_values[ridx]
    /\ LoopFinished => ridx = n_r

\* a sweep of three values over 2.6 .. 4.0 has taken its inexact middle value
C7_Witness ==
    /\ pc = "for_i"
    /\ n_r = 3
    /\ ridx = 2
    /\ r_min = Dec(26, 10) /\ r_max = FromInt(4)
    /\ r = r_values[2]
    /\ ~DEq(DMulInt(r, 2), ScaledIdeal(1))

(***************************************************************************)
(* C9: when the inner loop of the sweep has finished for a parameter value *)
(* r, the reused buffer x equals, element for element, the array that      *)
(* iterate_logistic(r, 0.5, n_iter) returns, whatever the buffer held from *)
(* the parameter values processed before.                                  *)
(***************************************************************************)
C9_BufferIsTrajectory ==
    pc \in {"extend_r", "extend_x"} =>
        /\ iterate_logistic(r, Half, n_iter).kind = "ok"
        /\ x = iterate_logistic(r, Half, n_iter).x

\* the second parameter value: the buffer was filled by a different
\* trajectory before this one
C9_Witness ==
    /\ pc = "extend_r"
    /\ ridx = 2
    /\ n_iter = 3
    /\ r # r_values[1]
    /\ x # iterate_logistic(r_values[1], Half, n_iter).x

(***************************************************************************)
(* C10: every step of the sweep leaves the entries already in r_plot and   *)
(* x_plot in place (the lists only grow at their end), and in a valid      *)
(* sweep both lists have length k * Kept once k parameter values have been *)
(* processed.                                                              *)
(***************************************************************************)
C10_AppendOnly ==
    /\ [][IsPrefix(r_plot, r_plot') /\ IsPrefix(x_plot, x_plot')]_vars
    /\ []((ValidConfig /\ pc \in {"for_r", "plot", "done"}) =>
            /\ Len(r_plot) = ridx * Kept
            /\ Len(x_plot) = ridx * Kept)

\* the buffer is being overwritten for the second parameter value while the
\* samples of the first are in the lists
C10_Witness ==
    /\ pc = "for_i"
    /\ ValidConfig
    /\ ridx = 2
    /\ i = 2
    /\ Len(x_plot) = Kept
    /\ Kept >= 2
    /\ x[2] # x_plot[Len(x_plot) - 1]

(***************************************************************************)
(* C3: for n_iter >= 1, iterate_logistic returns (it raises nothing) an    *)
(* array of exactly n_iter elements whose element 0 is x0.                 *)
(***************************************************************************)
C3_LengthAndFirst ==
    (a_n >= 1 /\ ipc # "call") =>
        /\ ipc = "returned"
        /\ Len(ret.x) = a_n
        /\ ret.x[1] = a_x0

\* n_iter = 1: the loop body never runs
C3_Witness ==
    /\ ipc = "returned"
    /\ a_n = 1
    /\ ret.x = <<a_x0>>
    /\ a_x0 # FZero

(***************************************************************************)
(* C4: for n_iter >= 1, every element i >= 1 of the array returned is the  *)
(* float64 value of r * x[i-1] * (1 - x[i-1]) taken from the element just  *)
(* before it, also for r and x0 outside [0, 4] and [0, 1]: nothing is      *)
(* clamped and nothing raises.                                             *)
(***************************************************************************)
C4_Recurrence ==
    (a_n >= 1 /\ ipc # "call") =>
        /\ ipc = "returned"
        /\ \A k \in 1..(Len(ret.x) - 1) :
              ret.x[k + 1] = FMul(FMul(a_r, ret.x[k]), FSub(One, ret.x[k]))

\* r = 5, x0 = 2: the iterates leave [0, 1] and keep growing
C4_Witness ==
    /\ ipc = "returned"
    /\ a_r = FromInt(5)
    /\ a_x0 = FromInt(2)
    /\ a_n >= 3
    /\ FLt(ret.x[2], FromInt(-1))
    /\ FLt(ret.x[3], ret.x[2])

(***************************************************************************)
(* C8 as stated: for r > 1 and x0 = 1 - 1/r every element returned equals  *)
(* x0 (taken here for the growth rates 1 < r <= 4 of the map's domain).    *)
(***************************************************************************)
AtFixedPoint == FLt(One, a_r) /\ a_x0 = FixedPoint(a_r)

=============================================================================
